---- MODULE Spec2Model ----
(***************************************************************************)
(* A model of src/src/decoder.rs: the bencode scanner (parse_state and its *)
(* helpers), the decoder core (the Deserializer methods of BencodeDecoder) *)
(* and the container adapter (BencodeVisitor as SeqAccess, MapAccess,      *)
(* EnumAccess and VariantAccess).  The recursive descent of the decoder    *)
(* and of the visitors that drive it is kept on an explicit control stack, *)
(* ctl; every action is one handler of the source, or the part of one up   *)
(* to the nested call it makes or after that call has returned.            *)
(*                                                                         *)
(* Two variables hold no state of the program: hist records where the      *)
(* staged tokens came from and which of them were handed to a visitor, and *)
(* replay records the states of a first decode, against which the decode   *)
(* of a second, independent decoder instance is compared.                  *)
(***************************************************************************)
EXTENDS Integers, Sequences, FiniteSets, TLC

VARIABLES
    input,      \* the bytes handed to from_bytes (the reader's slice)
    de,         \* BencodeDecoder: reader (bytes consumed), state, is_struct, is_option
    ctl,        \* the control stack: the calls in progress, innermost last
    ret,        \* the result the innermost finished call has just returned
    scenario,   \* how the input was built, and the target shape decoded into
    hist,       \* history: the origin of the staged tokens, the tokens delivered
    replay      \* history: the instance decoding, and the states of the first

vars == <<input, de, ctl, ret, scenario, hist, replay>>

(***************************************************************************)
(* Bounds of the model.                                                    *)
(***************************************************************************)
\* byte strings of the exhaustive families have at most this many bytes
MaxStrLen == 2
\* lists of the exhaustive families have at most this many elements
MaxElems == 2
\* dictionaries of the exhaustive families have at most this many entries
MaxEntries == 2
\* the integers -IntRange..IntRange are decoded, besides those at the i64 limits
IntRange == 12
\* a sequence visitor keeps at most this many elements: a longer sequence is
\* kept as its first MaxVecLen elements
MaxVecLen == 4
\* the first MaxSteps states of a decode are recorded for the comparison with
\* a second instance
MaxSteps == 120

(***************************************************************************)
(* Bytes.  A byte is a number in 0..255; text is written as a tuple of     *)
(* one-character strings and turned into bytes by B.                       *)
(***************************************************************************)
Code ==
    [a |-> 97, b |-> 98, c |-> 99, d |-> 100, e |-> 101, f |-> 102, g |-> 103,
     h |-> 104, i |-> 105, j |-> 106, k |-> 107, l |-> 108, m |-> 109,
     n |-> 110, o |-> 111, p |-> 112, q |-> 113, r |-> 114, s |-> 115,
     t |-> 116, u |-> 117, v |-> 118, w |-> 119, x |-> 120, y |-> 121,
     z |-> 122, B |-> 66, D |-> 68, I |-> 73, L |-> 76, S |-> 83]
    @@ ("0" :> 48) @@ ("1" :> 49) @@ ("2" :> 50) @@ ("3" :> 51) @@ ("4" :> 52)
    @@ ("5" :> 53) @@ ("6" :> 54) @@ ("7" :> 55) @@ ("8" :> 56) @@ ("9" :> 57)
    @@ (":" :> 58) @@ ("-" :> 45) @@ ("+" :> 43) @@ ("." :> 46) @@ (" " :> 32)

B(text) == [n \in 1..Len(text) |-> Code[text[n]]]

Min(a, b) == IF a < b THEN a ELSE b

(***************************************************************************)
(* 64-bit signed integers.  An i64 is kept as its sign and the decimal     *)
(* digits of its magnitude (no leading zero, zero is the empty magnitude), *)
(* so that the limits of the type are the real ones.                       *)
(***************************************************************************)
I64MaxMag == <<9,2,2,3,3,7,2,0,3,6,8,5,4,7,7,5,8,0,7>>
I64MinMag == <<9,2,2,3,3,7,2,0,3,6,8,5,4,7,7,5,8,0,8>>

\* a > b, for magnitudes
MagGreater(a, b) ==
    \/ Len(a) > Len(b)
    \/ /\ Len(a) = Len(b)
       /\ \E n \in 1..Len(a) : a[n] > b[n] /\ \A m \in 1..(n - 1) : a[m] = b[m]

\* result.checked_mul(10) then checked_add / checked_sub of one digit
MagPush(mag, digit) == IF mag = <<>> /\ digit = 0 THEN <<>> ELSE Append(mag, digit)

\* ParseDigits with the magnitude checked against the positive limit whatever
\* the sign (the value negated after it is accumulated)
RECURSIVE ParseDigitsNegateAfter(_, _, _)
ParseDigitsNegateAfter(text, mag, neg) ==
    IF text = <<>>
    THEN [k |-> "ok", v |-> [mag |-> mag, neg |-> neg /\ mag # <<>>]]
    ELSE IF Head(text) \notin 48..57
    THEN [k |-> "err", v |-> "InvalidDigit"]
    ELSE LET next == MagPush(mag, Head(text) - 48) IN
         IF MagGreater(next, I64MaxMag)
         THEN [k |-> "err", v |-> "Overflow"]
         ELSE ParseDigitsNegateAfter(Tail(text), next, neg)

RECURSIVE ParseDigits(_, _, _)
ParseDigits(text, mag, neg) ==
    IF text = <<>>
    THEN [k |-> "ok", v |-> [mag |-> mag, neg |-> neg /\ mag # <<>>]]
    ELSE IF Head(text) \notin 48..57
    THEN [k |-> "err", v |-> "InvalidDigit"]
    ELSE LET next == MagPush(mag, Head(text) - 48) IN
         IF MagGreater(next, IF neg THEN I64MinMag ELSE I64MaxMag)
         THEN [k |-> "err", v |-> "Overflow"]
         ELSE ParseDigits(Tail(text), next, neg)

\* str::parse::<i64>: an optional sign, then at least one decimal digit
ParseI64(text) ==
    IF text = <<>>
    THEN [k |-> "err", v |-> "Empty"]
    ELSE LET signed == Head(text) \in {43, 45}
             digits == IF signed THEN Tail(text) ELSE text
         IN  IF digits = <<>>
             THEN [k |-> "err", v |-> "InvalidDigit"]
             ELSE ParseDigits(digits, <<>>, Head(text) = 45)

\* the iteration count of 0..len, as far as it matters: capped at cap
RECURSIVE MagToNat(_, _, _)
MagToNat(mag, acc, cap) ==
    IF mag = <<>> THEN acc
    ELSE MagToNat(Tail(mag), Min(acc * 10 + Head(mag), cap), cap)

(***************************************************************************)
(* The tokens (enum State) and the scanner.  The reader is the number of   *)
(* bytes of the input consumed so far.  A scan returns k = "ok" with the   *)
(* token, k = "err" with the error kind, or k = "panic"; pos is the reader *)
(* after it.                                                               *)
(***************************************************************************)
S(bytes) == [tok |-> "S", val |-> bytes]
I(i) == [tok |-> "I", val |-> i]
L == [tok |-> "L", val |-> <<>>]
D == [tok |-> "D", val |-> <<>>]
E == [tok |-> "E", val |-> <<>>]

ScanOk(token, pos) == [k |-> "ok", pos |-> pos, v |-> token]
ScanErr(kind, pos) == [k |-> "err", pos |-> pos, v |-> kind]
ScanPanic(pos) == [k |-> "panic", pos |-> pos, v |-> "assertion failed"]

RECURSIVE parse_int_loop(_, _)
parse_int_loop(pos, result) ==
    IF pos >= Len(input)
    THEN ScanErr("EndOfStream", pos)
    ELSE LET byte == input[pos + 1] IN
         IF byte >= 128
         THEN ScanErr("InvalidValue", pos + 1)
         ELSE IF byte = Code.e
         THEN LET parsed == ParseI64(result) IN
              IF parsed.k = "ok"
              THEN ScanOk(I(parsed.v), pos + 1)
              ELSE ScanErr("InvalidValue", pos + 1)
         ELSE parse_int_loop(pos + 1, Append(result, byte))

parse_int(pos) == parse_int_loop(pos, <<>>)

\* parse_byte_string_body with the loop one iteration short (1..len)
parse_byte_string_body_short(len, pos) ==
    IF Len(input) - pos < len - 1
    THEN ScanPanic(Len(input))
    ELSE ScanOk(S(SubSeq(input, pos + 1, pos + len - 1)), Min(pos + len - 1, Len(input)))

parse_byte_string_body(len, pos) ==
    IF Len(input) - pos < len
    THEN ScanPanic(Len(input))
    ELSE ScanOk(S(SubSeq(input, pos + 1, pos + len)), pos + len)

RECURSIVE parse_byte_string_len(_, _)
parse_byte_string_len(pos, len) ==
    IF pos >= Len(input)
    THEN ScanErr("EndOfStream", pos)
    ELSE LET byte == input[pos + 1] IN
         IF byte >= 128
         THEN ScanErr("InvalidValue", pos + 1)
         ELSE IF byte = Code[":"]
         THEN LET parsed == ParseI64(len) IN
              IF parsed.k = "ok"
              THEN ScanOk(MagToNat(parsed.v.mag, 0, Len(input) + 1), pos + 1)
              ELSE ScanErr("InvalidValue", pos + 1)
         ELSE parse_byte_string_len(pos + 1, Append(len, byte))

parse_byte_string(len_char, pos) ==
    LET len == parse_byte_string_len(pos, <<len_char>>) IN
    IF len.k = "ok" THEN parse_byte_string_body(len.v, len.pos) ELSE len

parse_state(pos) ==
    IF pos < Len(input)
    THEN LET byte == input[pos + 1] IN
         CASE byte = Code.l -> ScanOk(L, pos + 1)
           [] byte = Code.d -> ScanOk(D, pos + 1)
           [] byte = Code.e -> ScanOk(E, pos + 1)
           [] byte = Code.i -> parse_int(pos + 1)
           [] byte \in 48..57 -> parse_byte_string(byte, pos + 1)
           [] OTHER -> ScanErr("EndOfStream", pos + 1)
    ELSE ScanErr("EndOfStream", pos)

(***************************************************************************)
(* The target shapes (what the caller asks Deserialize for) and the values *)
(* the visitors build.  Both are records whose field k names the kind.     *)
(***************************************************************************)
TI64 == [k |-> "i64", v |-> <<>>]
TBytes == [k |-> "bytes", v |-> <<>>]
TString == [k |-> "string", v |-> <<>>]
TIgnored == [k |-> "ignored", v |-> <<>>]
TSeq(elem) == [k |-> "seq", v |-> elem]
TMap(key, val) == [k |-> "map", v |-> <<key, val>>]
TOption(inner) == [k |-> "option", v |-> inner]
\* fields: a sequence of [name, ty]
TStruct(fields) == [k |-> "struct", v |-> fields]
\* variants: a sequence of [name, shape, ty], shape one of newtype, unit, tuple, struct
TEnum(variants) == [k |-> "enum", v |-> variants]
\* the identifier of a field of a struct, of a variant of an enum
TField(struct) == [k |-> "field", v |-> struct]
TVariant(enum) == [k |-> "variant", v |-> enum]

VInt(i) == [k |-> "i64", v |-> i]
VBytes(bytes) == [k |-> "bytes", v |-> bytes]
VStr(bytes) == [k |-> "string", v |-> bytes]
VSeq(elems) == [k |-> "seq", v |-> elems]
VMap(entries) == [k |-> "map", v |-> entries]
VStruct(fields) == [k |-> "struct", v |-> fields]
VEnum(name, payload) == [k |-> "enum", v |-> <<name, payload>>]
VIgnored == [k |-> "ignored", v |-> <<>>]
VIdent(n) == [k |-> "ident", v |-> n]
Some(v) == [k |-> "some", v |-> v]
None == [k |-> "none", v |-> <<>>]
Unset == [k |-> "unset", v |-> <<>>]

MapInsert(entries, key, val) ==
    [x \in DOMAIN entries \cup {key} |-> IF x = key THEN val ELSE entries[x]]

IsText(bytes) == \A n \in 1..Len(bytes) : bytes[n] < 128

(***************************************************************************)
(* The control stack and the results of calls.                             *)
(***************************************************************************)
Top == ctl[Len(ctl)]
Pop(stack) == SubSeq(stack, 1, Len(stack) - 1)
Replace(stack, frame) == Append(Pop(stack), frame)

Calling == [k |-> "call", v |-> <<>>]
Ok(v) == [k |-> "ok", v |-> v]
Err(kind) == [k |-> "err", v |-> kind]
Panicked == [k |-> "panic", v |-> <<>>]

Returned == ret.k \in {"ok", "err"}
Done == ctl = <<>>

\* T::deserialize(deserializer): the Deserializer method each target shape asks for
Call(ty) ==
    [fn |-> CASE ty.k = "option" -> "deserialize_option"
              [] ty.k = "struct" -> "deserialize_struct"
              [] ty.k = "enum" -> "deserialize_enum"
              [] ty.k \in {"field", "variant"} -> "deserialize_identifier"
              [] OTHER -> "deserialize_any",
     ty |-> ty]

\* the states the first instance steps through are recorded, those of the
\* second are counted
Replayed(d, c, r) ==
    IF replay.instance = 1
    THEN IF Len(replay.trace) < MaxSteps
         THEN [replay EXCEPT !.trace = Append(@, [de |-> d, ctl |-> c, ret |-> r])]
         ELSE replay
    ELSE [replay EXCEPT !.step = @ + 1]

\* one step of the decode, to the decoder d, the calls in progress c and the
\* result r, with the history h
StepH(d, c, r, h) ==
    /\ de' = d /\ ctl' = c /\ ret' = r /\ hist' = h
    /\ replay' = Replayed(d, c, r)
    /\ UNCHANGED <<input, scenario>>

\* a step that stages and delivers no token
Step(d, c, r) == StepH(d, c, r, hist)

\* a failed assertion unwinds every call in progress
Abort(d) == Step(d, <<>>, Panicked)

last(state) == IF state = <<>> THEN None ELSE Some(state[Len(state)])
pop(state) == IF state = <<>> THEN state ELSE Pop(state)

\* at: the reader position the token pushed was scanned from, -1 if none was
update_state(d) ==
    LET s == parse_state(d.reader) IN
    [de |-> [d EXCEPT !.reader = s.pos,
                      !.state = IF s.k = "ok" THEN Append(@, s.v) ELSE @],
     panic |-> s.k = "panic",
     at |-> IF s.k = "ok" THEN d.reader ELSE -1]

\* if self.state.last() == None { self.update_state(); }
EnsureToken(u) ==
    IF ~u.panic /\ u.de.state = <<>> THEN update_state(u.de) ELSE u

Quiet(d) == [de |-> d, panic |-> FALSE, at |-> -1]

(***************************************************************************)
(* The history.  ids runs beside de.state: the reader position each staged *)
(* token was scanned from, which names the token.  delivered lists the     *)
(* tokens handed to a visitor, as a value or as the name of a field, in    *)
(* the order they were handed.  probes runs beside the calls of            *)
(* next_element_seed and next_key_seed in progress: the reader position    *)
(* the probe began at, and the token its update_state staged (-1 if the    *)
(* scan failed).                                                           *)
(***************************************************************************)
NoHistory == [ids |-> <<>>, delivered |-> <<>>, probes |-> <<>>]

\* update_state has pushed the token scanned from at, if at is one
Staged(h, at) == IF at >= 0 THEN [h EXCEPT !.ids = Append(@, at)] ELSE h

\* the top token is handed to a visitor
Delivered(h) ==
    IF h.ids = <<>> THEN h ELSE [h EXCEPT !.delivered = Append(@, h.ids[Len(h.ids)])]

\* self.state.pop()
Popped(h) == [h EXCEPT !.ids = pop(@)]

ProbeBegun(h, from, at) ==
    [Staged(h, at) EXCEPT !.probes = Append(@, [from |-> from, staged |-> at])]

ProbeEnded(h) == [h EXCEPT !.probes = Pop(@)]

(***************************************************************************)
(* The visitors: what each target shape answers to the visit_* call the    *)
(* decoder makes.  A shape answers the calls below and rejects every other *)
(* one.  An error a visitor builds is named after the constructor of       *)
(* serde::de::Error it is built with (invalid_type, unknown_variant, ...); *)
(* the errors the decoder builds are EndOfStream, InvalidValue and         *)
(* UnknownVariant.                                                         *)
(***************************************************************************)
visit_i64(vis, i) ==
    CASE vis.k = "i64" -> Ok(VInt(i))
      [] vis.k = "ignored" -> Ok(VIgnored)
      [] OTHER -> Err("invalid_type")

visit_byte_buf(vis, bytes) ==
    CASE vis.k = "bytes" -> Ok(VBytes(bytes))
      [] vis.k = "string" -> IF IsText(bytes) THEN Ok(VStr(bytes)) ELSE Err("invalid_value")
      [] vis.k = "ignored" -> Ok(VIgnored)
      [] OTHER -> Err("invalid_type")

AcceptsSeq(vis) == vis.k \in {"seq", "ignored"}
AcceptsMap(vis) == vis.k \in {"map", "ignored", "struct"}

\* the element, key and value shapes a container visitor asks its adapter for
ElemTy(vis) == IF vis.k = "seq" THEN vis.v ELSE TIgnored
KeyTy(vis) ==
    CASE vis.k = "map" -> vis.v[1]
      [] vis.k = "struct" -> TField(vis)
      [] OTHER -> TIgnored

FieldIndex(struct, name) ==
    IF \E n \in 1..Len(struct.v) : struct.v[n].name = name
    THEN CHOOSE n \in 1..Len(struct.v) : struct.v[n].name = name
    ELSE 0

\* the identifier visitors serde derives: a struct ignores a name it does not
\* know, an enum rejects it
visit_ident(vis, name) ==
    IF vis.k = "field"
    THEN Ok(VIdent(FieldIndex(vis.v, name)))
    ELSE IF FieldIndex(vis.v, name) = 0
    THEN Err("unknown_variant")
    ELSE Ok(VIdent(FieldIndex(vis.v, name)))

visit_bytes(vis, bytes) == visit_ident(vis, bytes)
visit_str(vis, str) == visit_ident(vis, B(str))

\* the frames of the visitors that stay in progress over calls to the adapter
VisitSeq(vis) == [fn |-> "visit_seq", ty |-> vis, acc |-> <<>>]
VisitMap(vis) ==
    [fn |-> "visit_map", ty |-> vis, phase |-> "key", field |-> 0, key |-> None,
     acc |-> IF vis.k = "struct" THEN [n \in 1..Len(vis.v) |-> Unset] ELSE <<>>]
VisitEnum(vis) == [fn |-> "visit_enum", ty |-> vis, phase |-> "variant", variant |-> 0]
VisitSome(vis) == [fn |-> "visit_some", ty |-> vis]

(***************************************************************************)
(* The decoder core: impl Deserializer for &mut BencodeDecoder.            *)
(***************************************************************************)
\* deserialize_any once a token is staged: u.de is the decoder, vis the visitor
Dispatch(u, vis) ==
    IF u.panic
    THEN Abort(u.de)
    ELSE IF u.de.is_option
    THEN LET d == [u.de EXCEPT !.is_option = FALSE] IN
         IF vis.k = "option"
         THEN StepH(d, Append(Replace(ctl, VisitSome(vis)), Call(vis.v)), Calling,
                    Staged(hist, u.at))
         ELSE StepH(d, Pop(ctl), Err("invalid_type"), Staged(hist, u.at))
    ELSE LET token == last(u.de.state)
             d == [u.de EXCEPT !.state = pop(@)]
             visited == Popped(Delivered(Staged(hist, u.at)))
         IN  CASE token.k = "some" /\ token.v.tok = "I" ->
                    StepH(d, Pop(ctl), visit_i64(vis, token.v.val), visited)
               [] token.k = "some" /\ token.v.tok = "S" ->
                    StepH(d, Pop(ctl), visit_byte_buf(vis, token.v.val), visited)
               [] token.k = "some" /\ token.v.tok = "L" ->
                    IF AcceptsSeq(vis)
                    THEN StepH(d, Replace(ctl, VisitSeq(vis)), Calling, visited)
                    ELSE StepH(d, Pop(ctl), Err("invalid_type"), visited)
               [] token.k = "some" /\ token.v.tok = "D" ->
                    IF AcceptsMap(vis)
                    THEN StepH(d, Replace(ctl, VisitMap(vis)), Calling, visited)
                    ELSE StepH(d, Pop(ctl), Err("invalid_type"), visited)
               [] OTHER -> StepH(d, Pop(ctl), Err("EndOfStream"),
                                 Popped(Staged(hist, u.at)))

deserialize_any ==
    /\ ~Done /\ Top.fn = "deserialize_any" /\ ret.k = "call"
    /\ Dispatch(EnsureToken(Quiet(de)), Top.ty)

deserialize_option ==
    /\ ~Done /\ Top.fn = "deserialize_option" /\ ret.k = "call"
    /\ Dispatch(EnsureToken(EnsureToken(Quiet([de EXCEPT !.is_option = TRUE]))), Top.ty)

deserialize_struct ==
    /\ ~Done /\ Top.fn = "deserialize_struct" /\ ret.k = "call"
    /\ LET u == EnsureToken(Quiet([de EXCEPT !.is_struct = TRUE])) IN
       IF u.panic
       THEN Abort(u.de)
       ELSE StepH(u.de, Replace(ctl, VisitMap(Top.ty)), Calling, Staged(hist, u.at))

\* deserialize_identifier with the tags of a list and of a dictionary exchanged
deserialize_identifier_swapped ==
    /\ ~Done /\ Top.fn = "deserialize_identifier" /\ ret.k = "call"
    /\ LET token == last(de.state) IN
       IF de.is_struct
       THEN IF token.k = "some" /\ token.v.tok = "S"
            THEN StepH(de, Pop(ctl), visit_bytes(Top.ty, token.v.val), Delivered(hist))
            ELSE Step(de, Pop(ctl), Err("EndOfStream"))
       ELSE Step([de EXCEPT !.is_struct = TRUE], Pop(ctl),
                 CASE token.k = "some" /\ token.v.tok = "I" ->
                        visit_str(Top.ty, <<"I","n","t","e","g","e","r">>)
                   [] token.k = "some" /\ token.v.tok = "S" ->
                        visit_str(Top.ty, <<"B","y","t","e","S","t","r","i","n","g">>)
                   [] token.k = "some" /\ token.v.tok = "D" ->
                        visit_str(Top.ty, <<"L","i","s","t">>)
                   [] token.k = "some" /\ token.v.tok = "L" ->
                        visit_str(Top.ty, <<"D","i","c","t">>)
                   [] OTHER -> Err("EndOfStream"))

deserialize_identifier ==
    /\ ~Done /\ Top.fn = "deserialize_identifier" /\ ret.k = "call"
    /\ LET token == last(de.state) IN
       IF de.is_struct
       THEN IF token.k = "some" /\ token.v.tok = "S"
            THEN StepH(de, Pop(ctl), visit_bytes(Top.ty, token.v.val), Delivered(hist))
            ELSE Step(de, Pop(ctl), Err("EndOfStream"))
       ELSE Step([de EXCEPT !.is_struct = TRUE], Pop(ctl),
                 CASE token.k = "some" /\ token.v.tok = "I" ->
                        visit_str(Top.ty, <<"I","n","t","e","g","e","r">>)
                   [] token.k = "some" /\ token.v.tok = "S" ->
                        visit_str(Top.ty, <<"B","y","t","e","S","t","r","i","n","g">>)
                   [] token.k = "some" /\ token.v.tok = "D" ->
                        visit_str(Top.ty, <<"D","i","c","t">>)
                   [] token.k = "some" /\ token.v.tok = "L" ->
                        visit_str(Top.ty, <<"L","i","s","t">>)
                   [] OTHER -> Err("EndOfStream"))

deserialize_enum ==
    /\ ~Done /\ Top.fn = "deserialize_enum" /\ ret.k = "call"
    /\ LET u == EnsureToken(Quiet([de EXCEPT !.is_struct = FALSE])) IN
       IF u.panic
       THEN Abort(u.de)
       ELSE StepH(u.de, Replace(ctl, VisitEnum(Top.ty)), Calling, Staged(hist, u.at))

(***************************************************************************)
(* The container adapter: BencodeVisitor as SeqAccess, MapAccess,          *)
(* EnumAccess and VariantAccess.  A method that hands the decoder to a     *)
(* seed is two actions: the call, and what it does with the seed's result. *)
(***************************************************************************)
Waiting(name) == [fn |-> name, ty |-> TIgnored]

next_element_seed_call ==
    /\ ~Done /\ Top.fn = "visit_seq" /\ ret.k = "call"
    /\ LET u == update_state(de) IN
       IF u.panic
       THEN Abort(u.de)
       ELSE StepH(u.de,
                  ctl \o <<Waiting("next_element_seed"), Call(ElemTy(Top.ty))>>,
                  Calling, ProbeBegun(hist, de.reader, u.at))

\* next_element_seed handing the seed's error on instead of absorbing it
next_element_seed_return_propagates ==
    /\ ~Done /\ Top.fn = "next_element_seed" /\ Returned
    /\ IF ret.k = "ok"
       THEN StepH(de, Pop(ctl), Ok(Some(ret.v)), ProbeEnded(hist))
       ELSE StepH(de, Pop(ctl), ret, ProbeEnded(hist))

next_element_seed_return ==
    /\ ~Done /\ Top.fn = "next_element_seed" /\ Returned
    /\ IF ret.k = "ok"
       THEN StepH(de, Pop(ctl), Ok(Some(ret.v)), ProbeEnded(hist))
       ELSE StepH([de EXCEPT !.state = pop(@)], Pop(ctl), Ok(None),
                  ProbeEnded(Popped(hist)))

next_key_seed_call ==
    /\ ~Done /\ Top.fn = "visit_map" /\ Top.phase = "key" /\ ret.k = "call"
    /\ LET token == last(de.state)
           u == update_state(de)
       IN  IF token.k = "some" /\ token.v.tok = "E"
           THEN Step(de, ctl, Ok(None))
           ELSE IF u.panic
           THEN Abort(u.de)
           ELSE StepH(u.de,
                      ctl \o <<Waiting("next_key_seed"), Call(KeyTy(Top.ty))>>,
                      Calling, ProbeBegun(hist, de.reader, u.at))

\* next_key_seed handing the seed's error on instead of absorbing it
next_key_seed_return_propagates ==
    /\ ~Done /\ Top.fn = "next_key_seed" /\ Returned
    /\ IF ret.k = "ok"
       THEN StepH(de, Pop(ctl), Ok(Some(ret.v)), ProbeEnded(hist))
       ELSE StepH(de, Pop(ctl), ret, ProbeEnded(hist))

next_key_seed_return ==
    /\ ~Done /\ Top.fn = "next_key_seed" /\ Returned
    /\ IF ret.k = "ok"
       THEN StepH(de, Pop(ctl), Ok(Some(ret.v)), ProbeEnded(hist))
       ELSE StepH([de EXCEPT !.state = pop(@)], Pop(ctl), Ok(None),
                  ProbeEnded(Popped(hist)))

\* the shape of the value the map visitor asks for after the key it was given
ValueTy(frame) ==
    CASE frame.ty.k = "map" -> frame.ty.v[2]
      [] frame.ty.k = "struct" /\ frame.field > 0 -> frame.ty.v[frame.field].ty
      [] OTHER -> TIgnored

next_value_seed ==
    /\ ~Done /\ Top.fn = "visit_map" /\ Top.phase = "value" /\ ret.k = "call"
    /\ LET u == update_state(de) IN
       IF u.panic
       THEN Abort(u.de)
       ELSE StepH(u.de, Append(ctl, Call(ValueTy(Top))), Calling, Staged(hist, u.at))

variant_seed ==
    /\ ~Done /\ Top.fn = "visit_enum" /\ Top.phase = "variant" /\ ret.k = "call"
    /\ Step(de, Append(ctl, Call(TVariant(Top.ty))), Calling)

VariantShape(frame) == frame.ty.v[frame.variant].shape

Accessing(shape) ==
    /\ ~Done /\ Top.fn = "visit_enum" /\ Top.phase = "access" /\ ret.k = "call"
    /\ VariantShape(Top) = shape

newtype_variant_seed ==
    /\ Accessing("newtype")
    /\ Step(de,
            Append(Replace(ctl, [Top EXCEPT !.phase = "payload"]),
                   Call(Top.ty.v[Top.variant].ty)),
            Calling)

\* unit_variant consuming the staged token before it rejects the variant
unit_variant_pops ==
    /\ Accessing("unit")
    /\ StepH([de EXCEPT !.state = pop(@)], Replace(ctl, [Top EXCEPT !.phase = "payload"]),
             Err("UnknownVariant"), Popped(hist))

unit_variant ==
    /\ Accessing("unit")
    /\ Step(de, Replace(ctl, [Top EXCEPT !.phase = "payload"]), Err("UnknownVariant"))

tuple_variant ==
    /\ Accessing("tuple")
    /\ Step(de, Replace(ctl, [Top EXCEPT !.phase = "payload"]), Err("UnknownVariant"))

struct_variant ==
    /\ Accessing("struct")
    /\ Step(de, Replace(ctl, [Top EXCEPT !.phase = "payload"]), Err("UnknownVariant"))

(***************************************************************************)
(* The visitors that drive the adapter: a sequence (Vec), a map (HashMap), *)
(* a derived struct, a derived enum, an Option, and IgnoredAny, which the  *)
(* derived struct uses for the value of a field it does not know.          *)
(***************************************************************************)
visit_seq ==
    /\ ~Done /\ Top.fn = "visit_seq" /\ Returned
    /\ IF ret.k = "err"
       THEN Step(de, Pop(ctl), ret)
       ELSE IF ret.v.k = "none"
       THEN Step(de, Pop(ctl),
                 Ok(IF Top.ty.k = "seq" THEN VSeq(Top.acc) ELSE VIgnored))
       ELSE Step(de,
                 Replace(ctl, IF Top.ty.k = "seq" /\ Len(Top.acc) < MaxVecLen
                              THEN [Top EXCEPT !.acc = Append(@, ret.v.v)]
                              ELSE Top),
                 Calling)

\* a derived struct, once its map is exhausted: an Option field that was not
\* given is None, any other is missing
StructResult(frame) ==
    LET fields == frame.ty.v
        missing(n) == frame.acc[n].k = "unset" /\ fields[n].ty.k # "option"
    IN  IF \E n \in 1..Len(fields) : missing(n)
        THEN Err("missing_field")
        ELSE Ok(VStruct([n \in 1..Len(fields) |->
                            IF frame.acc[n].k = "unset" THEN None ELSE frame.acc[n]]))

MapResult(frame) ==
    CASE frame.ty.k = "map" -> Ok(VMap(frame.acc))
      [] frame.ty.k = "struct" -> StructResult(frame)
      [] OTHER -> Ok(VIgnored)

visit_map ==
    /\ ~Done /\ Top.fn = "visit_map" /\ Returned
    /\ IF ret.k = "err"
       THEN Step(de, Pop(ctl), ret)
       ELSE IF Top.phase = "key"
       THEN IF ret.v.k = "none"
            THEN Step(de, Pop(ctl), MapResult(Top))
            ELSE IF Top.ty.k = "struct"
            THEN LET n == ret.v.v.v IN
                 IF n > 0 /\ Top.acc[n].k # "unset"
                 THEN Step(de, Pop(ctl), Err("duplicate_field"))
                 ELSE Step(de, Replace(ctl, [Top EXCEPT !.phase = "value", !.field = n]),
                           Calling)
            ELSE Step(de, Replace(ctl, [Top EXCEPT !.phase = "value", !.key = ret.v]),
                      Calling)
       ELSE Step(de,
                 Replace(ctl,
                     CASE Top.ty.k = "map" ->
                            [Top EXCEPT !.phase = "key",
                                        !.acc = MapInsert(@, Top.key.v, ret.v)]
                       [] Top.ty.k = "struct" /\ Top.field > 0 ->
                            [Top EXCEPT !.phase = "key", !.acc[Top.field] = ret.v]
                       [] OTHER -> [Top EXCEPT !.phase = "key"]),
                 Calling)

visit_enum ==
    /\ ~Done /\ Top.fn = "visit_enum" /\ Returned
    /\ IF ret.k = "err"
       THEN Step(de, Pop(ctl), ret)
       ELSE IF Top.phase = "variant"
       THEN Step(de, Replace(ctl, [Top EXCEPT !.phase = "access", !.variant = ret.v.v]),
                 Calling)
       ELSE Step(de, Pop(ctl), Ok(VEnum(Top.ty.v[Top.variant].name, ret.v)))

\* visit_some taking the failure of the wrapped value for an absent value
visit_some_absent_on_error ==
    /\ ~Done /\ Top.fn = "visit_some" /\ Returned
    /\ IF ret.k = "err"
       THEN Step(de, Pop(ctl), Ok(None))
       ELSE Step(de, Pop(ctl), Ok(Some(ret.v)))

visit_some ==
    /\ ~Done /\ Top.fn = "visit_some" /\ Returned
    /\ IF ret.k = "err"
       THEN Step(de, Pop(ctl), ret)
       ELSE Step(de, Pop(ctl), Ok(Some(ret.v)))

(***************************************************************************)
(* The inputs.  The wire form of a value is written by the operators Enc*, *)
(* the inverse of the scanner (the repository holds no encoder); every     *)
(* scenario names the family the input belongs to, the target shape, and   *)
(* the result the specification states for it.                             *)
(***************************************************************************)
SeqsUpTo(set, n) == UNION {[1..m -> set] : m \in 0..n}

RECURSIVE Concat(_)
Concat(seqs) == IF seqs = <<>> THEN <<>> ELSE Head(seqs) \o Concat(Tail(seqs))

RECURSIVE NatDigits(_)
NatDigits(n) == IF n < 10 THEN <<n>> ELSE Append(NatDigits(n \div 10), n % 10)

I64Of(n) ==
    [mag |-> IF n = 0 THEN <<>> ELSE NatDigits(IF n < 0 THEN -n ELSE n), neg |-> n < 0]

FormatDigits(digits) == [n \in 1..Len(digits) |-> 48 + digits[n]]
FormatNat(n) == FormatDigits(NatDigits(n))
\* the decimal text of an i64 (Display)
FormatI64(i) ==
    (IF i.neg THEN <<45>> ELSE <<>>) \o FormatDigits(IF i.mag = <<>> THEN <<0>> ELSE i.mag)

EncInt(i) == <<Code.i>> \o FormatI64(i) \o <<Code.e>>
EncBytes(bytes) == FormatNat(Len(bytes)) \o <<Code[":"]>> \o bytes
EncList(items) == <<Code.l>> \o Concat(items) \o <<Code.e>>
\* entries: a sequence of <<key bytes, encoded value>>
EncDict(entries) ==
    <<Code.d>>
    \o Concat([n \in 1..Len(entries) |-> EncBytes(entries[n][1]) \o entries[n][2]])
    \o <<Code.e>>

\* the integers decoded: the small ones, and those at and next to the limits
IntValues ==
    {I64Of(n) : n \in -IntRange..IntRange}
    \cup {[mag |-> I64MaxMag, neg |-> FALSE], [mag |-> I64MaxMag, neg |-> TRUE],
          [mag |-> I64MinMag, neg |-> TRUE],
          [mag |-> <<9,2,2,3,3,7,2,0,3,6,8,5,4,7,7,5,8,0,6>>, neg |-> FALSE],
          [mag |-> <<1,0,0,0,0,0,0,0,0,0,0,0,0,0,0,0,0,0,0>>, neg |-> FALSE],
          [mag |-> <<9,9,9,9,9,9,9,9,9,9,9,9,9,9,9,9,9,9>>, neg |-> TRUE]}

\* texts between i and e that are no 64-bit signed integer
BadIntTexts ==
    {B(<<"3",".","0">>), B(<<"a","b","c">>), <<>>, B(<<"-">>), B(<<"1"," ">>),
     B(<<"-","-","1">>), B(<<"1","-">>), <<255>>, <<Code["1"], 255>>,
     FormatDigits(I64MinMag), <<45>> \o FormatDigits(<<9,2,2,3,3,7,2,0,3,6,8,5,4,7,7,5,8,0,9>>),
     FormatDigits(<<1,0,0,0,0,0,0,0,0,0,0,0,0,0,0,0,0,0,0,0>>)}

\* byte strings: a text byte and a byte that is no text
ByteStrings(n) == SeqsUpTo({Code.a, 255}, n)

\* fam: the family; target: the shape decoded into; expect: the result the
\* specification states; wire: the value the input encodes (None if it encodes none)
Scenario(fam, target, expect, wire) ==
    [fam |-> fam, target |-> target, expect |-> expect, wire |-> wire]

\* BencodeDecoder::new: reader is the position in the slice it is given
new(reader) == [reader |-> reader, state |-> <<>>, is_struct |-> FALSE, is_option |-> FALSE]

\* from_bytes(bytes): the decode of a first decoder instance begins
Start(bytes, sc) ==
    /\ input = bytes
    /\ scenario = sc
    /\ de = new(0)
    /\ ctl = <<Call(sc.target)>>
    /\ ret = Calling
    /\ hist = NoHistory
    /\ replay = [instance |-> 1, step |-> 1,
                 trace |-> <<[de |-> new(0), ctl |-> <<Call(sc.target)>>, ret |-> Calling]>>]

InitInt ==
    \E i \in IntValues : Start(EncInt(i), Scenario("int", TI64, Ok(VInt(i)), VInt(i)))

InitBadInt ==
    \E text \in BadIntTexts :
        Start(<<Code.i>> \o text \o <<Code.e>>, Scenario("bad_int", TI64, Err("InvalidValue"), None))

\* byte strings whose length takes two digits
LongStrings == {[n \in 1..len |-> IF n % 3 = 0 THEN 255 ELSE Code.a] : len \in {10, 11, 20}}

InitBytes ==
    \E bytes \in ByteStrings(MaxStrLen) \cup LongStrings :
        Start(EncBytes(bytes), Scenario("bytes", TBytes, Ok(VBytes(bytes)), VBytes(bytes)))

\* a declared length that exceeds the bytes that follow it, alone or in a list
InitShortBytes ==
    \E bytes \in ByteStrings(MaxStrLen), extra \in 1..2, inList \in BOOLEAN :
        LET short == FormatNat(Len(bytes) + extra) \o <<Code[":"]>> \o bytes IN
        IF inList
        THEN Start(<<Code.l>> \o short, Scenario("short_bytes", TSeq(TBytes), Err("EndOfStream"), None))
        ELSE Start(short, Scenario("short_bytes", TBytes, Err("EndOfStream"), None))

BytesValues(elems) == [n \in 1..Len(elems) |-> VBytes(elems[n])]
EncAllBytes(elems) == [n \in 1..Len(elems) |-> EncBytes(elems[n])]

InitList ==
    \E elems \in SeqsUpTo(ByteStrings(MaxStrLen), MaxElems) :
        Start(EncList(EncAllBytes(elems)),
              Scenario("list", TSeq(TBytes), Ok(VSeq(BytesValues(elems))),
                       VSeq(BytesValues(elems))))

\* the keys of the dictionaries: text
KeySamples == {B(<<"a">>), B(<<"b">>), B(<<"c","o","w">>)}

\* sequences of (key, value) with distinct keys
DictEntries ==
    {es \in SeqsUpTo(KeySamples \X ByteStrings(1), MaxEntries) :
        \A m, n \in 1..Len(es) : m # n => es[m][1] # es[n][1]}

EncEntries(es) == [n \in 1..Len(es) |-> <<es[n][1], EncBytes(es[n][2])>>]

\* the map holding exactly the entries es
MapOf(es) ==
    [key \in {VStr(es[n][1]) : n \in 1..Len(es)} |->
        VBytes(es[CHOOSE n \in 1..Len(es) : es[n][1] = key.v][2])]

InitDict ==
    \E es \in DictEntries :
        Start(EncDict(EncEntries(es)),
              Scenario("dict", TMap(TString, TBytes), Ok(VMap(MapOf(es))),
                       VMap(MapOf(es))))

ButLast(bytes) == SubSeq(bytes, 1, Len(bytes) - 1)

\* inputs that end where the terminator of an integer, of a list or of a
\* dictionary is due
InitOpen ==
    \/ \E i \in IntValues :
          Start(ButLast(EncInt(i)), Scenario("open", TI64, Err("EndOfStream"), None))
    \/ \E elems \in SeqsUpTo(ByteStrings(MaxStrLen), MaxElems) :
          Start(ButLast(EncList(EncAllBytes(elems))),
                Scenario("open", TSeq(TBytes), Err("EndOfStream"), None))
    \/ \E es \in DictEntries :
          Start(ButLast(EncDict(EncEntries(es))),
                Scenario("open", TMap(TString, TBytes), Err("EndOfStream"), None))

\* what stands where an element or a key is due and is none: a byte that starts
\* no token, a malformed integer, a malformed length, and well-formed tokens
\* of a shape a byte-string or text target rejects
BadElems ==
    {<<Code.x>>, B(<<"i","3",".","0","e">>), B(<<"1","x",":","a">>),
     EncInt(I64Of(5)), EncList(<<>>), EncBytes(<<255>>)}

\* a list of byte strings with a bad element before, between or after them
InitBadElem ==
    \E before \in SeqsUpTo(ByteStrings(1), MaxElems), bad \in BadElems \ {EncBytes(<<255>>)},
       after \in SeqsUpTo(ByteStrings(1), 1) :
        Start(EncList(EncAllBytes(before) \o <<bad>> \o EncAllBytes(after)),
              Scenario("bad_elem", TSeq(TBytes), Err("any"), None))

\* a dictionary with a bad key after its entries (a key that is no text included)
InitBadKey ==
    \E es \in DictEntries, bad \in BadElems, closed \in BOOLEAN :
        Start(<<Code.d>>
              \o Concat([n \in 1..Len(es) |-> EncBytes(es[n][1]) \o EncBytes(es[n][2])])
              \o bad \o EncBytes(<<Code.a>>) \o (IF closed THEN <<Code.e>> ELSE <<>>),
              Scenario("bad_key", TMap(TString, TBytes), Err("any"), None))

Variant(name, shape, ty) == [name |-> B(name), shape |-> shape, ty |-> ty]

\* a tagged union with one single-payload variant per shape of token
ValueEnum ==
    TEnum(<<Variant(<<"I","n","t","e","g","e","r">>, "newtype", TI64),
            Variant(<<"B","y","t","e","S","t","r","i","n","g">>, "newtype", TBytes),
            Variant(<<"L","i","s","t">>, "newtype", TSeq(TBytes)),
            Variant(<<"D","i","c","t">>, "newtype", TMap(TString, TBytes))>>)

\* a tagged union with one single-payload variant per key of the dictionaries
KeyedEnum ==
    TEnum(<<Variant(<<"a">>, "newtype", TBytes),
            Variant(<<"b">>, "newtype", TBytes),
            Variant(<<"c","o","w">>, "newtype", TBytes)>>)

\* tagged unions whose variants are unit, tuple and struct variants
ShapeEnums ==
    {TEnum(<<Variant(<<"I","n","t","e","g","e","r">>, s1, TIgnored),
             Variant(<<"B","y","t","e","S","t","r","i","n","g">>, s2, TIgnored),
             Variant(<<"L","i","s","t">>, s2, TIgnored),
             Variant(<<"D","i","c","t">>, s1, TIgnored)>>) :
        s1, s2 \in {"unit", "tuple", "struct"}}

\* a dictionary decoded into a tagged union: the specification states that a
\* sole entry is the variant (its key) and the payload (its value)
InitEnumDict ==
    \E es \in DictEntries, target \in {ValueEnum, KeyedEnum} :
        Start(EncDict(EncEntries(es)),
              Scenario("enum_dict", target,
                       IF Len(es) = 1
                       THEN Ok(VEnum(es[1][1], VBytes(es[1][2])))
                       ELSE Err("UnknownVariant"),
                       VMap(MapOf(es))))

\* a value of each shape decoded into a tagged union, alone or as the elements
\* of a list
Wires ==
    {[enc |-> EncInt(i), val |-> VInt(i)] : i \in {I64Of(0), I64Of(-7)}}
    \cup {[enc |-> EncBytes(b), val |-> VBytes(b)] : b \in ByteStrings(1)}
    \cup {[enc |-> EncList(EncAllBytes(bs)), val |-> VSeq(BytesValues(bs))] :
              bs \in SeqsUpTo(ByteStrings(1), 1)}
    \cup {[enc |-> EncDict(EncEntries(es)), val |-> VMap(MapOf(es))] :
              es \in {<<>>, <<<<B(<<"a">>), <<Code.a>>>>>>}}

ListWires ==
    {w \in Wires : w.val \in {VInt(I64Of(0)), VBytes(<<Code.a>>), VSeq(<<>>), VMap(<<>>)}}

InitEnumAny ==
    \/ \E w \in Wires, target \in {ValueEnum} \cup ShapeEnums :
          Start(w.enc, Scenario("enum_any", target, Err("UnknownVariant"), w.val))
    \/ \E ws \in SeqsUpTo(ListWires, MaxElems), target \in {ValueEnum} \cup ShapeEnums :
          Start(EncList([n \in 1..Len(ws) |-> ws[n].enc]),
                Scenario("enum_list", TSeq(target), Err("UnknownVariant"), None))

Field(name, ty) == [name |-> B(name), ty |-> ty]

\* a struct with a required and an optional field
StructAB == TStruct(<<Field(<<"a">>, TI64), Field(<<"b">>, TOption(TBytes))>>)

\* entries for StructAB: its fields with values of the right and of the wrong
\* shape, and a field it does not know
StructEntrySamples ==
    {<<B(<<"a">>), EncInt(I64Of(5))>>, <<B(<<"a">>), EncBytes(<<Code.a>>)>>,
     <<B(<<"b">>), EncBytes(<<Code.a>>)>>, <<B(<<"b">>), EncInt(I64Of(7))>>,
     <<B(<<"c">>), EncInt(I64Of(1))>>, <<B(<<"c">>), EncList(<<EncBytes(<<Code.a>>)>>)>>,
     <<B(<<"c">>), EncDict(<<>>)>>}

InitStruct ==
    \E es \in SeqsUpTo(StructEntrySamples, MaxEntries), inList \in BOOLEAN :
        IF inList
        THEN Start(EncList(<<EncDict(es)>>), Scenario("struct", TSeq(StructAB), Err("any"), None))
        ELSE Start(EncDict(es), Scenario("struct", StructAB, Err("any"), None))

InitOption ==
    \/ \E w \in Wires, target \in {TOption(TI64), TOption(TBytes), TOption(TOption(TI64))} :
          Start(w.enc, Scenario("option", target, Err("any"), w.val))
    \/ \E elems \in SeqsUpTo(ByteStrings(1), MaxElems) :
          Start(EncList(EncAllBytes(elems)),
                Scenario("option", TSeq(TOption(TBytes)), Err("any"), None))

\* a struct whose fields are all optional, and a struct with no field
StructOpt == TStruct(<<Field(<<"b">>, TOption(TBytes))>>)
StructNone == TStruct(<<>>)

\* a struct one field of which is a struct
StructOuter == TStruct(<<Field(<<"s">>, StructAB), Field(<<"b">>, TOption(TBytes))>>)

Five == VInt(I64Of(5))
Six == VInt(I64Of(6))
EncFive == EncInt(I64Of(5))
EncSix == EncInt(I64Of(6))
KeyA == B(<<"a">>)
KeyB == B(<<"b">>)
KeyC == B(<<"c">>)
KeyS == B(<<"s">>)
BytesA == VBytes(<<Code.a>>)
EncA == EncBytes(<<Code.a>>)

Case(enc, target, val) == [enc |-> enc, target |-> target, val |-> val]

\* well-formed encodings of one value with the shape each is decoded into and
\* the value it encodes: scalars, sequences, maps, optionals, tagged unions
WellFormedPlain ==
    {Case(EncInt(i), TI64, VInt(i)) :
        i \in {I64Of(0), I64Of(-7), [mag |-> I64MinMag, neg |-> TRUE]}}
    \cup {Case(EncBytes(b), TBytes, VBytes(b)) : b \in ByteStrings(1)}
    \cup {Case(EncList(EncAllBytes(bs)), TSeq(TBytes), VSeq(BytesValues(bs))) :
              bs \in SeqsUpTo(ByteStrings(1), MaxElems)}
    \cup {Case(EncDict(EncEntries(es)), TMap(TString, TBytes), VMap(MapOf(es))) :
              es \in {<<>>, <<<<KeyA, <<Code.a>>>>>>, <<<<KeyA, <<Code.a>>>>, <<KeyB, <<255>>>>>>}}
    \cup {Case(w.enc, ValueEnum,
               VEnum(CASE w.val.k = "i64" -> B(<<"I","n","t","e","g","e","r">>)
                       [] w.val.k = "bytes" -> B(<<"B","y","t","e","S","t","r","i","n","g">>)
                       [] w.val.k = "seq" -> B(<<"L","i","s","t">>)
                       [] OTHER -> B(<<"D","i","c","t">>),
                     w.val)) : w \in ListWires}
    \cup {Case(EncFive, TOption(TI64), Some(Five)),
          Case(EncFive, TOption(TOption(TI64)), Some(Some(Five))),
          Case(EncList(<<EncA, EncA>>), TSeq(TOption(TBytes)),
               VSeq(<<Some(BytesA), Some(BytesA)>>)),
          Case(EncList(<<EncList(<<>>), EncList(<<EncA>>)>>), TSeq(TSeq(TBytes)),
               VSeq(<<VSeq(<<>>), VSeq(<<BytesA>>)>>)),
          Case(EncList(<<EncDict(<<<<KeyA, EncA>>>>), EncDict(<<>>)>>),
               TSeq(TMap(TString, TBytes)),
               VSeq(<<VMap(MapOf(<<<<KeyA, <<Code.a>>>>>>)), VMap(MapOf(<<>>))>>)),
          Case(EncDict(<<<<KeyA, EncList(<<EncA>>)>>, <<KeyB, EncList(<<>>)>>>>),
               TMap(TString, TSeq(TBytes)),
               VMap([key \in {VStr(KeyA), VStr(KeyB)} |->
                        IF key = VStr(KeyA) THEN VSeq(<<BytesA>>) ELSE VSeq(<<>>)]))}

\* well-formed dictionaries decoded into structs with named fields, alone and
\* nested in the other shapes
WellFormedStruct ==
    {Case(EncDict(<<<<KeyA, EncFive>>>>), StructAB, VStruct(<<Five, None>>)),
     Case(EncDict(<<<<KeyA, EncFive>>, <<KeyB, EncA>>>>), StructAB,
          VStruct(<<Five, Some(BytesA)>>)),
     Case(EncDict(<<<<KeyA, EncFive>>, <<KeyC, EncSix>>>>), StructAB,
          VStruct(<<Five, None>>)),
     Case(EncDict(<<<<KeyA, EncFive>>, <<KeyC, EncList(<<EncA>>)>>>>), StructAB,
          VStruct(<<Five, None>>)),
     Case(EncDict(<<<<KeyA, EncFive>>, <<KeyC, EncDict(<<<<KeyA, EncA>>>>)>>>>), StructAB,
          VStruct(<<Five, None>>)),
     Case(EncDict(<<>>), StructOpt, VStruct(<<None>>)),
     Case(EncDict(<<<<KeyB, EncA>>>>), StructOpt, VStruct(<<Some(BytesA)>>)),
     Case(EncDict(<<>>), StructNone, VStruct(<<>>)),
     Case(EncDict(<<<<KeyS, EncDict(<<<<KeyA, EncFive>>>>)>>, <<KeyB, EncA>>>>), StructOuter,
          VStruct(<<VStruct(<<Five, None>>), Some(BytesA)>>)),
     Case(EncList(<<EncDict(<<<<KeyA, EncFive>>>>), EncDict(<<<<KeyA, EncSix>>>>)>>),
          TSeq(StructAB),
          VSeq(<<VStruct(<<Five, None>>), VStruct(<<Six, None>>)>>)),
     Case(EncList(<<>>), TSeq(StructAB), VSeq(<<>>)),
     Case(EncDict(<<<<KeyA, EncDict(<<<<KeyA, EncFive>>>>)>>>>), TMap(TString, StructAB),
          VMap([key \in {VStr(KeyA)} |-> VStruct(<<Five, None>>)])),
     Case(EncDict(<<<<KeyB, EncA>>>>), TOption(StructOpt), Some(VStruct(<<Some(BytesA)>>)))}

\* what follows the encoding in the input: nothing, an End marker, a byte
\* string, a byte that starts no token
Trailers == {<<>>, <<Code.e>>, EncA, <<Code.x>>}

\* a well-formed encoding decoded into its shape, followed by a trailer; end
\* is where the encoding ends in the input
WellFormedOf(cases, trailers) ==
    \E c \in cases, t \in trailers :
        Start(c.enc \o t,
              [fam |-> "well_formed", target |-> c.target, expect |-> Ok(c.val),
               wire |-> c.val, end |-> Len(c.enc)])

InitWellFormed == WellFormedOf(WellFormedPlain \cup WellFormedStruct, Trailers)

\* well-formed encodings of a byte string and of an integer decoded into a
\* struct, with what the decode of the encoding alone returns
OffShape ==
    {Case(EncBytes(KeyB), StructOpt, VStruct(<<Some(VBytes(KeyB))>>)),
     Case(EncFive, StructOpt, VStruct(<<None>>))}

InitOffShape ==
    \E c \in OffShape, t \in Trailers \cup {EncBytes(KeyB)} :
        Start(c.enc \o t,
              [fam |-> "off_shape", target |-> c.target, expect |-> Ok(c.val),
               wire |-> c.val, end |-> Len(c.enc)])

\* what stands where the value of a field is due and is none: nothing, a
\* byte that starts no token, a malformed integer
BadValues == {<<>>, <<Code.x>>, <<Code.x, Code.e>>, B(<<"i","3",".","0","e","e">>)}

\* a dictionary cut or malformed after the key of a field, decoded into a struct
InitStructCut ==
    \E es \in SeqsUpTo({<<KeyA, EncFive>>, <<KeyB, EncA>>}, 1), key \in {KeyA, KeyB, KeyC},
       bad \in BadValues, target \in {StructAB, StructOpt} :
        Start(<<Code.d>>
              \o Concat([n \in 1..Len(es) |-> EncBytes(es[n][1]) \o es[n][2]])
              \o EncBytes(key) \o bad,
              Scenario("struct_cut", target, Err("any"), None))

\* a list decoded into a sequence of structs that need no field
InitSeqOfOptional ==
    \E wire \in {EncList(<<>>), EncList(<<EncDict(<<>>)>>),
                  EncList(<<EncDict(<<<<KeyB, EncA>>>>)>>), <<Code.l>>},
       target \in {TSeq(StructOpt), TSeq(StructNone)} :
        Start(wire, Scenario("seq_of_optional", target, Err("any"), None))

Init ==
    \/ InitInt
    \/ InitBadInt
    \/ InitBytes
    \/ InitShortBytes
    \/ InitList
    \/ InitDict
    \/ InitOpen
    \/ InitBadElem
    \/ InitBadKey
    \/ InitEnumDict
    \/ InitEnumAny
    \/ InitStruct
    \/ InitOption
    \/ InitWellFormed
    \/ InitOffShape
    \/ InitStructCut
    \/ InitSeqOfOptional

\* from_bytes with the second instance taking over the token stack the first
\* instance left
from_bytes_keeps_stack ==
    /\ Done /\ replay.instance = 1
    /\ de' = [new(0) EXCEPT !.state = de.state]
    /\ ctl' = <<Call(scenario.target)>>
    /\ ret' = Calling
    /\ hist' = [NoHistory EXCEPT !.ids = hist.ids]
    /\ replay' = [replay EXCEPT !.instance = 2]
    /\ UNCHANGED <<input, scenario>>

\* from_bytes on the same bytes, for the same target, once the first decode
\* has ended: a second decoder instance
from_bytes ==
    /\ Done /\ replay.instance = 1
    /\ de' = new(0)
    /\ ctl' = <<Call(scenario.target)>>
    /\ ret' = Calling
    /\ hist' = NoHistory
    /\ replay' = [replay EXCEPT !.instance = 2]
    /\ UNCHANGED <<input, scenario>>

Next ==
    \/ from_bytes
    \/ deserialize_any
    \/ deserialize_option
    \/ deserialize_struct
    \/ deserialize_identifier
    \/ deserialize_enum
    \/ next_element_seed_call
    \/ next_element_seed_return
    \/ next_key_seed_call
    \/ next_key_seed_return
    \/ next_value_seed
    \/ variant_seed
    \/ newtype_variant_seed
    \/ unit_variant
    \/ tuple_variant
    \/ struct_variant
    \/ visit_seq
    \/ visit_map
    \/ visit_enum
    \/ visit_some

Spec == Init /\ [][Next]_vars

\* the inputs of the decodes whose end is checked: the well-formed encodings
\* of every shape (the integers of few digits) with nothing after them, the
\* sequences of structs that need no field, the dictionaries cut after a key,
\* and a value of each shape decoded into the tagged unions of unit, tuple
\* and struct variants
InitLive ==
    \/ WellFormedOf({c \in WellFormedPlain \cup WellFormedStruct : Len(c.enc) < 20}, {<<>>})
    \/ InitSeqOfOptional
    \/ InitStructCut
    \/ \E w \in ListWires, target \in ShapeEnums :
          Start(w.enc, Scenario("enum_any", target, Err("UnknownVariant"), w.val))

\* the decode is one sequential call: while a step is possible, it is taken
SpecLive == InitLive /\ [][Next]_vars /\ WF_vars(Next)

(***************************************************************************)
(* The properties.                                                         *)
(***************************************************************************)
Dict == B(<<"D","i","c","t">>)

\* C1: for every 64-bit signed integer n, the limits included, decoding
\* `i` + the decimal text of n + `e` into an integer target returns exactly n
C1_IntegerDecodesToItself ==
    (Done /\ scenario.fam = "int") => ret = Ok(scenario.wire)

\* the minimum of the type has been decoded
C1_Witness ==
    /\ Done /\ scenario.fam = "int" /\ ret.k = "ok"
    /\ ret.v.v = [mag |-> I64MinMag, neg |-> TRUE]

\* C2: for every byte sequence b of length L, decoding decimal(L) + `:` + b
\* into a byte-string target returns exactly b
C2_ByteStringDecodesToItself ==
    (Done /\ scenario.fam = "bytes") => ret = Ok(scenario.wire)

\* a byte string whose length takes two digits and that holds bytes that are
\* no text has been decoded
C2_Witness ==
    /\ Done /\ scenario.fam = "bytes" /\ ret.k = "ok"
    /\ Len(ret.v.v) >= 10 /\ ret.v.v[3] = 255

\* C3: decoding a list of byte strings into a sequence-of-byte-string target
\* returns exactly those byte strings in wire order, the empty sequence for `le`
C3_ListDecodesInOrder ==
    (Done /\ scenario.fam = "list") => ret = Ok(scenario.wire)

\* a list of two different byte strings has been decoded
C3_Witness ==
    /\ Done /\ scenario.fam = "list" /\ ret.k = "ok"
    /\ Len(ret.v.v) = 2 /\ ret.v.v[1] # ret.v.v[2]

\* C4: decoding a dictionary of (text key, byte-string value) pairs with
\* distinct keys into a map target returns a map holding exactly those
\* pairs, the empty map for `de`
C4_DictDecodesToItsPairs ==
    (Done /\ scenario.fam = "dict") => ret = Ok(scenario.wire)

\* a dictionary of two entries has been decoded
C4_Witness ==
    /\ Done /\ scenario.fam = "dict" /\ ret.k = "ok"
    /\ Cardinality(DOMAIN ret.v.v) = 2

C6_BadIntegerIsInvalidValue ==
    (Done /\ scenario.fam = "bad_int") => ret = Err("InvalidValue")

\* C7: decoding a byte string whose declared length exceeds the bytes that
\* remain returns EndOfStream: no abnormal end, no shorter byte string
C7_ShortReadIsEndOfStream ==
    (Done /\ scenario.fam = "short_bytes") => ret = Err("EndOfStream")

\* C8: decoding an input that ends where the terminator of an integer, a
\* list or a dictionary is due fails with EndOfStream and returns no value
C8_OpenInputIsEndOfStream ==
    (Done /\ scenario.fam = "open") => ret = Err("EndOfStream")

\* C9: when the decode of an element or of a key fails for another reason
\* than the End marker, the top-level decode returns an error, never a
\* container of the entries before the failure
C9_NoPartialResult ==
    (Done /\ scenario.fam \in {"bad_elem", "bad_key"}) => ret.k = "err"

\* the tagged-union access is about to be asked for a variant that is no
\* single-payload variant
RejectedAccess ==
    /\ ~Done /\ Top.fn = "visit_enum" /\ Top.phase = "access" /\ ret.k = "call"
    /\ VariantShape(Top) \in {"unit", "tuple", "struct"}

\* C10: asked for a unit, tuple or struct variant, the tagged-union access
\* returns UnknownVariant and leaves the reader, the token stack and the mode
\* flags as they are
C10_OtherVariantsAreRejected ==
    [][RejectedAccess => (ret' = Err("UnknownVariant") /\ de' = de)]_vars

\* a struct variant has been rejected inside a list, a token still staged
C10_Witness ==
    /\ ~Done /\ Top.fn = "visit_enum" /\ Top.phase = "payload"
    /\ VariantShape(Top) = "struct" /\ ret = Err("UnknownVariant")
    /\ Len(ctl) > 1 /\ de.state # <<>>

\* C11: for every well-formed input and every target shape (scalar,
\* sequence, map, struct with named fields, tagged union, and nestings of
\* these), the token stack is empty when the top-level decode returns its
\* value
C11_StackEmptyAtReturn ==
    (Done /\ scenario.fam = "well_formed" /\ ret.k = "ok") => de.state = <<>>

\* the second instance is in the state the first was in after as many steps
SameAsFirst ==
    /\ replay.step <= Len(replay.trace)
    /\ LET first == replay.trace[replay.step] IN
       /\ de.reader = first.de.reader
       /\ Len(de.state) = Len(first.de.state)
       /\ Len(ctl) = Len(first.ctl)
       /\ ret.k = first.ret.k
       /\ de = first.de
       /\ ctl = first.ctl
       /\ ret = first.ret

Depth == Len(ctl)

\* C13: in every reachable state of a decode in progress the token stack
\* holds at most one token per decode request in progress, so that in struct
\* mode the stack does not grow with the number of fields decoded
C13_OneTokenPerFrame ==
    ~Done => Len(de.state) <= Depth

\* C14: every token the scanner pushed is handed to a visitor at most once
\* over the whole decode, as a value or as the name of a field: a token
\* handed over as the name of a field is not handed over again, as a name or
\* as the value of a field, also when the scan for the next token fails
C14_DeliveredAtMostOnce ==
    \A m, n \in 1..Len(hist.delivered) :
        m # n => hist.delivered[m] # hist.delivered[n]

\* C15: for every finite input and every target shape (a sequence of structs
\* whose fields are all optional, or that have no field, included) the
\* top-level decode eventually returns a value or an error
C15_DecodeReturns ==
    <>Done

\* next_element_seed or next_key_seed is about to absorb the failure of its
\* probe and report exhaustion
Absorbing ==
    /\ ~Done /\ Top.fn \in {"next_element_seed", "next_key_seed"} /\ ret.k = "err"

\* C16: when next_element_seed or next_key_seed absorbs a failed probe, the
\* only token it removes from the stack is the token that probe staged, never
\* a token staged by an enclosing frame (the key of an enclosing struct, its
\* DictOpen token)
C16_RollbackRemovesOwnToken ==
    [][Absorbing =>
          \/ hist'.ids = hist.ids
          \/ hist.ids[Len(hist.ids)] = hist.probes[Len(hist.probes)].staged]_vars

\* a container adapter has just reported exhaustion to its visitor
Exhausted ==
    /\ ~Done /\ ret.k = "ok" /\ ret.v.k = "none"
    /\ \/ Top.fn = "visit_seq"
       \/ Top.fn = "visit_map" /\ Top.phase = "key"

\* C17: whenever a container adapter reports exhaustion, by the failed probe
\* of next_element_seed / next_key_seed or by the End peek of next_key_seed,
\* no End token is on the token stack
C17_EndDiscardedAtExhaustion ==
    Exhausted => \A n \in 1..Len(de.state) : de.state[n].tok # "E"

\* next_element_seed is about to hand the value its seed returned to the
\* sequence visitor as the next element
Delivering ==
    /\ ~Done /\ Top.fn = "next_element_seed" /\ ret.k = "ok"

\* C18: every value the sequence adapter delivers as an element is decoded
\* from the token that starts at the position the reader was at when the
\* element was asked for (after the `l`, after the element before): a scan
\* that fails there is not followed by a scan further on whose token is
\* delivered in its place
C18_NoInputSkipped ==
    Delivering =>
        hist.probes[Len(hist.probes)].staged = hist.probes[Len(hist.probes)].from

\* a decode_option request returns in this step: deserialize_option itself,
\* or the visit_some it handed the decoder to
OptionReturns ==
    /\ ~Done /\ Top.fn \in {"deserialize_option", "visit_some"}
    /\ Len(ctl') < Len(ctl) /\ ret'.k # "panic"

\* C19: every decode_option request delivers `present` wrapping the value
\* the decode it wraps has returned, or fails with that decode's error, never
\* an absent value, and the option-mode flag is cleared before the wrapped
\* value is decoded: it is false after every step that did not panic (when a
\* token is popped and dispatched, when decode_option returns), for nested
\* optionals too
C19_OptionIsPresentOrFails ==
    [][/\ ret'.k # "panic" => ~de'.is_option
       /\ OptionReturns =>
             \/ ret'.k = "err"
             \/ ret'.v.k = "some" /\ ret.k = "ok" /\ ret' = Ok(Some(ret.v))]_vars

\* a nested optional has been decoded: present, wrapping a present value
C19_Witness ==
    /\ Done /\ scenario.target = TOption(TOption(TI64))
    /\ ret.k = "ok" /\ ret.v.k = "some" /\ ret.v.v.k = "some" /\ ret.v.v.v.k = "i64"
    /\ ~de.is_option

\* the decode of an input of the families fams has returned the value the
\* decode of the encoding alone returns, the reader at the end of the encoding
TrailingLeftAlone(fams) ==
    (Done /\ scenario.fam \in fams) =>
        /\ ret.k = "ok"
        /\ de.reader = scenario.end
        /\ ret = scenario.expect

\* C20: for every well-formed encoding v of one value and every byte sequence
\* t after it, the top-level decode of v followed by t returns the value the
\* decode of v alone returns, and when it returns the reader is exactly at
\* the end of v
C20_TrailingInputIsLeftAlone ==
    TrailingLeftAlone({"well_formed", "off_shape"})

====
